---- MODULE Spec2Model ----
(***************************************************************************)
(* Model of the game Coordinator of Xo_api (src/src/main.rs): GameServer,  *)
(* its command handler GameServer::handle, the per-message send tasks      *)
(* spawned by GameServer::send_to_player and the Coordinator loop of       *)
(* start_game_server (specification Spec), and of the connection gateway   *)
(* ws_service with its frame service (specification WsSpec).               *)
(***************************************************************************)
EXTENDS Integers, Sequences, FiniteSets, Bags, TLC

\* ------------------------------------------------------------------ bounds
\* Commands the Coordinator handles in one behaviour.
MaxCmds == 4
\* Outbound channels created in one behaviour (one per Connect).
MaxChans == 2
\* WebSocket connections accepted in one behaviour.
MaxConns == 1
\* Frames written to one connection's sink in one behaviour.
MaxReplies == 1
\* Ticks of the clock in one behaviour.
MaxTime == 3
\* Ticks a connection may stay silent before the liveness check must have
\* disconnected it (the timeout plus one check interval).
SilenceLimit == 2

\* ------------------------------------------------------------- constants
\* vec![vec!["_"; 3]; 3]
BoardSize == 3

PlayerIds == {"X", "a", "b"}
GameIds == {"g1", "g2"}

Cells == 0 .. (BoardSize - 1)
\* position: Vec<usize> of a MakeMove, as the clients send it: two cells of
\* the board, a row and a column just out of range, and one vector of each
\* length 0, 1 and 3.
Positions ==
    {<<0, 0>>, <<0, 1>>, <<0, BoardSize>>, <<BoardSize, 0>>,
     <<>>, <<0>>, <<0, 0, 0>>}

VARIABLES
    sessions,   \* GameServer.sessions: player id -> outbound channel
    games,      \* GameServer.games: game id -> Room
    tasks,      \* send tasks spawned by send_to_player, not yet run (a bag)
    queues,     \* queues[ch]: events put on outbound channel ch, in order
    alive,      \* the Coordinator task of start_game_server is still running
    handled,    \* number of commands the Coordinator has taken off its queue
    last,       \* the command handled last and the branch of handle it took
    log,        \* per game id: the JoinGame commands that added a member and
                \* the accepted MakeMove commands, in order
    gone,       \* players whose session a Disconnect removed, until they
                \* connect again
    sent,       \* sent[ch]: the events whose send task the Coordinator has
                \* spawned for channel ch, in the order it spawned them
    conns,      \* conns[c]: connection c of ws_service: its player_id, its
                \* status and WsState.hb
    inbox,      \* the Coordinator's inbound channel (tx of start_game_server)
    wire,       \* wire[c]: the frames written to the sink of connection c
    now,        \* the clock Instant::now() reads
    wlast       \* the frame handled last and what its handler did

coordVars ==
    <<sessions, games, tasks, queues, alive, handled, last, log, gone, sent>>

wsVars == <<conns, inbox, wire, now, wlast>>

vars ==
    <<sessions, games, tasks, queues, alive, handled, last, log, gone, sent,
      conns, inbox, wire, now, wlast>>

\* ------------------------------------------------------------- messages
\* ClientMessage::GameState(Room)
GameState(room) == [kind |-> "GameState", room |-> room]
\* ClientMessage::YourTurn(bool)
YourTurn(b) == [kind |-> "YourTurn", is_turn |-> b]
\* ClientMessage::Error(String)
Error(text) == [kind |-> "Error", text |-> text]
\* ClientMessage::Id(String)
Id(id) == [kind |-> "Id", id |-> id]

\* The Room a JoinGame creates for an unknown game id.
NewRoom(game_id) ==
    [game_id |-> game_id,
     players |-> {},
     board   |-> [r \in Cells |-> [c \in Cells |-> "_"]],
     x_turn  |-> TRUE]

\* let is_x = player_id == "X";
is_x(player_id) == player_id = "X"

\* Faulty variant of Mark: every move writes "X".
MarkAlwaysX(player_id) == "X"

\* if is_x { "X" } else { "O" }
Mark(player_id) == IF is_x(player_id) THEN "X" ELSE "O"

\* Faulty variant of send_to_player: the event goes to every registered channel.
SendToEveryone(sess, player_id, msg) ==
    SetToBag({[to |-> sess[q], msg |-> msg] : q \in DOMAIN sess})

\* fn send_to_player: one spawned task holding a clone of the player's sender,
\* nothing when the player has no session.
send_to_player(sess, player_id, msg) ==
    IF player_id \in DOMAIN sess
    THEN SetToBag({[to |-> sess[player_id], msg |-> msg]})
    ELSE EmptyBag

RECURSIVE NotifyPlayers(_, _, _)
NotifyPlayers(sess, game, todo) ==
    IF todo = {} THEN EmptyBag
    ELSE LET p == CHOOSE q \in todo : TRUE
         IN  send_to_player(sess, p, GameState(game))
             (+) send_to_player(sess, p, YourTurn(game.x_turn = is_x(p)))
             (+) NotifyPlayers(sess, game, todo \ {p})

\* fn notify_game_state: GameState and YourTurn for every member of the room.
notify_game_state(sess, game) == NotifyPlayers(sess, game, game.players)

\* The events one send_to_player call spawns for channel ch, in order.
SpawnedFor(sess, player_id, msg, ch) ==
    IF player_id \in DOMAIN sess /\ sess[player_id] = ch THEN <<msg>> ELSE <<>>

RECURSIVE NotifiedFor(_, _, _, _)
NotifiedFor(sess, game, todo, ch) ==
    IF todo = {} THEN <<>>
    ELSE LET p == CHOOSE q \in todo : TRUE
         IN  SpawnedFor(sess, p, GameState(game), ch)
             \o SpawnedFor(sess, p, YourTurn(game.x_turn = is_x(p)), ch)
             \o NotifiedFor(sess, game, todo \ {p}, ch)

Cmd(op, player, game, position, result) ==
    [op |-> op, player |-> player, game |-> game,
     position |-> position, result |-> result]

Init ==
    /\ sessions = <<>>
    /\ games = <<>>
    /\ tasks = EmptyBag
    /\ queues = <<>>
    /\ alive = TRUE
    /\ handled = 0
    /\ last = Cmd("None", "", "", <<>>, "None")
    /\ log = [g \in GameIds |-> <<>>]
    /\ gone = {}
    /\ sent = <<>>
    /\ conns = <<>>
    /\ inbox = <<>>
    /\ wire = <<>>
    /\ now = 0
    /\ wlast = [conn |-> 0, frame |-> "None", payload |-> <<>>,
                outcome |-> "None"]

\* Faulty variant of HasSpace: the capacity test is off by one.
HasSpaceOffByOne(game) == Cardinality(game.players) <= 2

\* if game.players.len() < 2
HasSpace(game) == Cardinality(game.players) < 2

\* Faulty variant of RemovePlayer: the member sets are left alone.
RemovePlayerForgotten(game, id) == game

\* game.players.remove(&id)
RemovePlayer(game, id) == [game EXCEPT !.players = @ \ {id}]

\* game.players.insert(player_id)
InsertPlayer(game, player_id) == [game EXCEPT !.players = @ \cup {player_id}]

\* The Coordinator loop takes the next command: while let Some(msg) = rx.next()
Takes ==
    /\ alive
    /\ handled < MaxCmds
    /\ handled' = handled + 1

\* ServerMessage::Connect { id, sender }: the sender is the connection's fresh
\* channel; the Id event is built but its send future is dropped unpolled.
Connect(id) ==
    /\ Takes
    /\ Len(queues) < MaxChans
    /\ queues' = Append(queues, <<>>)
    /\ sent' = Append(sent, <<>>)
    /\ sessions' = [p \in DOMAIN sessions \cup {id} |->
                      IF p = id THEN Len(queues) + 1 ELSE sessions[p]]
    /\ gone' = gone \ {id}
    /\ last' = Cmd("Connect", id, "", <<>>, "Registered")
    /\ UNCHANGED <<games, tasks, alive, log>>

\* ServerMessage::Disconnect(id)
Disconnect(id) ==
    /\ Takes
    /\ sessions' = [p \in DOMAIN sessions \ {id} |-> sessions[p]]
    /\ games' = [g \in DOMAIN games |-> RemovePlayer(games[g], id)]
    /\ gone' = IF id \in DOMAIN sessions THEN gone \cup {id} ELSE gone
    /\ last' = Cmd("Disconnect", id, "", <<>>, "Removed")
    /\ UNCHANGED <<tasks, queues, alive, log, sent>>

\* ServerMessage::JoinGame { player_id, game_id }
JoinGame(player_id, game_id) ==
    /\ Takes
    /\ LET game == IF game_id \in DOMAIN games THEN games[game_id]
                   ELSE NewRoom(game_id)
           with == [g \in DOMAIN games \cup {game_id} |->
                      IF g = game_id THEN game ELSE games[g]]
       IN  IF HasSpace(game)
           THEN LET joined == InsertPlayer(game, player_id)
                IN  /\ games' = [with EXCEPT ![game_id] = joined]
                    /\ tasks' = tasks (+) notify_game_state(sessions, joined)
                    /\ sent' = [ch \in DOMAIN sent |->
                                  sent[ch] \o NotifiedFor(sessions, joined,
                                                          joined.players, ch)]
                    /\ log' = IF player_id \in game.players THEN log
                              ELSE [log EXCEPT ![game_id] =
                                      Append(@, [op |-> "join",
                                                 player |-> player_id,
                                                 position |-> <<>>])]
                    /\ last' = Cmd("JoinGame", player_id, game_id, <<>>, "Joined")
           ELSE /\ games' = with
                /\ tasks' = tasks (+) send_to_player(sessions, player_id,
                                                   Error("Game is full"))
                /\ sent' = [ch \in DOMAIN sent |->
                              sent[ch] \o SpawnedFor(sessions, player_id,
                                                     Error("Game is full"), ch)]
                /\ log' = log
                /\ last' = Cmd("JoinGame", player_id, game_id, <<>>, "RoomFull")
    /\ UNCHANGED <<sessions, queues, alive, gone>>

\* if !game.players.contains(&player_id)
NotMember(game, player_id) == player_id \notin game.players

\* Faulty variant of WrongTurn: the turn test is missing.
WrongTurnUnchecked(game, player_id) == FALSE

\* if game.x_turn != is_x
WrongTurn(game, player_id) == game.x_turn # is_x(player_id)

\* let [row, col] = position.as_slice() else { ... }
BadShape(position) == Len(position) # 2

\* game.board[*row][*col] indexes outside the vectors: the handler panics.
OutOfBounds(game, row, col) ==
    \/ row \notin DOMAIN game.board
    \/ col \notin DOMAIN game.board[row]

\* Faulty variant of Occupied: the occupancy test is missing.
OccupiedUnchecked(game, row, col) == FALSE

\* if game.board[*row][*col] != "_"
Occupied(game, row, col) == game.board[row][col] # "_"

\* Faulty variant of Commit: the turn flag is not flipped.
CommitNoFlip(game, player_id, row, col) ==
    [game EXCEPT !.board[row][col] = Mark(player_id)]

\* game.board[*row][*col] = mark; game.x_turn = !game.x_turn;
Commit(game, player_id, row, col) ==
    [game EXCEPT !.board[row][col] = Mark(player_id),
                 !.x_turn = ~game.x_turn]

\* An error branch of MakeMove: the error goes to the requester, then return.
Reject(player_id, game_id, position, text, result) ==
    /\ tasks' = tasks (+) send_to_player(sessions, player_id, Error(text))
    /\ sent' = [ch \in DOMAIN sent |->
                  sent[ch] \o SpawnedFor(sessions, player_id, Error(text), ch)]
    /\ last' = Cmd("MakeMove", player_id, game_id, position, result)
    /\ UNCHANGED <<games, alive, log>>

\* ServerMessage::MakeMove { player_id, game_id, position }
MakeMove(player_id, game_id, position) ==
    /\ Takes
    /\ IF game_id \notin DOMAIN games
       THEN /\ last' = Cmd("MakeMove", player_id, game_id, position, "Ignored")
            /\ UNCHANGED <<games, tasks, alive, log, sent>>
       ELSE LET game == games[game_id]
            IN  IF NotMember(game, player_id)
                THEN Reject(player_id, game_id, position,
                            "Not in game", "NotInGame")
                ELSE IF WrongTurn(game, player_id)
                THEN Reject(player_id, game_id, position,
                            "Not your turn", "NotYourTurn")
                ELSE IF BadShape(position)
                THEN Reject(player_id, game_id, position,
                            "Invalid move", "InvalidMove")
                ELSE IF OutOfBounds(game, position[1], position[2])
                THEN \* index out of bounds: the panic unwinds the Coordinator
                     \* task, its loop ends and nothing was changed or sent
                     /\ alive' = FALSE
                     /\ last' = Cmd("MakeMove", player_id, game_id, position,
                                    "Panic")
                     /\ UNCHANGED <<games, tasks, log, sent>>
                ELSE IF Occupied(game, position[1], position[2])
                THEN Reject(player_id, game_id, position,
                            "Invalid move", "InvalidMove")
                ELSE LET moved == Commit(game, player_id,
                                         position[1], position[2])
                     IN  /\ games' = [games EXCEPT ![game_id] = moved]
                         /\ tasks' = tasks (+) notify_game_state(sessions, moved)
                         /\ sent' = [ch \in DOMAIN sent |->
                                       sent[ch] \o NotifiedFor(sessions, moved,
                                                               moved.players, ch)]
                         /\ log' = [log EXCEPT ![game_id] =
                                      Append(@, [op |-> "move",
                                                 player |-> player_id,
                                                 position |-> position])]
                         /\ last' = Cmd("MakeMove", player_id, game_id,
                                        position, "Moved")
                         /\ alive' = alive
    /\ UNCHANGED <<sessions, queues, gone>>

\* A spawned send task runs: addr.send(msg).await puts msg on its channel.
Deliver(t) ==
    /\ BagIn(t, tasks)
    /\ tasks' = tasks (-) SetToBag({t})
    /\ queues' = [queues EXCEPT ![t.to] = Append(@, t.msg)]
    /\ UNCHANGED <<sessions, games, alive, handled, last, log, gone, sent>>

\* The Coordinator and its send tasks, driven by any sender on the inbound
\* channel; no connection of ws_service takes part.
Next ==
    \/ \E id \in PlayerIds : Connect(id) /\ UNCHANGED wsVars
    \/ \E id \in PlayerIds : Disconnect(id) /\ UNCHANGED wsVars
    \/ \E p \in PlayerIds, g \in GameIds :
          JoinGame(p, g) /\ UNCHANGED wsVars
    \/ \E p \in PlayerIds, g \in GameIds, pos \in Positions :
          MakeMove(p, g, pos) /\ UNCHANGED wsVars
    \/ \E t \in BagToSet(tasks) : Deliver(t) /\ UNCHANGED wsVars

Spec == Init /\ [][Next]_vars

\* ---------------------------------------------------------------- gateway
\* Option<T>: None is <<>>, Some(v) is <<v>>.
None == <<>>
Some(v) == <<v>>

\* A text payload: parses says whether serde_json reads it as a WsMessage
\* apart from the presence of message_type; the fields are those of WsMessage.
Payload(parses, message_type, player, game_id, move) ==
    [parses |-> parses, message_type |-> message_type, player |-> player,
     game_id |-> game_id, move |-> move]

Payloads ==
    {Payload(FALSE, None, None, None, None),
     Payload(TRUE, None, Some("a"), Some("g1"), None),
     Payload(TRUE, Some("chat"), Some("a"), Some("g1"), Some(<<0, 0>>)),
     Payload(TRUE, Some("join"), None, Some("g1"), None),
     Payload(TRUE, Some("join"), Some("a"), None, None),
     Payload(TRUE, Some("move"), Some("a"), Some("g1"), None),
     Payload(TRUE, Some("move"), None, Some("g1"), Some(<<0, 0>>)),
     Payload(TRUE, Some("join"), Some("a"), Some("g1"), None),
     Payload(TRUE, Some("move"), Some("a"), Some("g1"), Some(<<0, 0>>))}

\* ServerMessage values as they travel on a channel.
ConnectMsg(id) == [op |-> "Connect", id |-> id]
DisconnectMsg(id) == [op |-> "Disconnect", id |-> id]
JoinGameMsg(player_id, game_id) ==
    [op |-> "JoinGame", player_id |-> player_id, game_id |-> game_id]
MakeMoveMsg(player_id, game_id, position) ==
    [op |-> "MakeMove", player_id |-> player_id, game_id |-> game_id,
     position |-> position]

\* Faulty variant of Decode: a join without game_id joins the room "".
DecodeLenient(pl) ==
    IF ~pl.parses \/ pl.message_type = None THEN None
    ELSE IF pl.message_type = Some("join") /\ pl.player # None
    THEN Some(JoinGameMsg(pl.player[1],
                          IF pl.game_id = None THEN "" ELSE pl.game_id[1]))
    ELSE None

\* serde_json::from_str::<WsMessage> and the match on message_type: the
\* command to send, or None (the frame is answered with Ok(None)).
Decode(pl) ==
    IF ~pl.parses \/ pl.message_type = None THEN None
    ELSE IF pl.message_type = Some("join")
    THEN IF pl.player # None /\ pl.game_id # None
         THEN Some(JoinGameMsg(pl.player[1], pl.game_id[1]))
         ELSE None
    ELSE IF pl.message_type = Some("move")
    THEN IF pl.player # None /\ pl.game_id # None /\ pl.move # None
         THEN Some(MakeMoveMsg(pl.player[1], pl.game_id[1], pl.move[1]))
         ELSE None
    ELSE None

\* uuid::Uuid::new_v4().to_string(): a fresh identifier per connection.
Uuid(c) == ToString(c)

Frame(c, frame, payload, outcome) ==
    [conn |-> c, frame |-> frame, payload |-> payload, outcome |-> outcome]

Open(c) == c \in DOMAIN conns /\ conns[c].status = "open"

\* ws_service up to its return: the client channel and the player id are
\* made, Connect is sent to the Coordinator, WsState.hb is set to the clock.
Accept ==
    /\ alive
    /\ Len(conns) < MaxConns
    /\ conns' = Append(conns, [id |-> Uuid(Len(conns) + 1),
                               status |-> "open", hb |-> now])
    /\ inbox' = Append(inbox, ConnectMsg(Uuid(Len(conns) + 1)))
    /\ wire' = Append(wire, <<>>)
    /\ UNCHANGED <<now, wlast>>
    /\ UNCHANGED coordVars

\* The Coordinator loop takes the head of its inbound channel; the gateway
\* sends nothing but Connect on it.
Receive ==
    /\ inbox # <<>>
    /\ Head(inbox).op = "Connect"
    /\ Connect(Head(inbox).id)
    /\ inbox' = Tail(inbox)
    /\ UNCHANGED <<conns, wire, now, wlast>>

\* Frame::Ping(msg) => Some(Message::Pong(msg))
OnPing(c) ==
    /\ Open(c)
    /\ Len(wire[c]) < MaxReplies
    /\ wire' = [wire EXCEPT ![c] = Append(@, "Pong")]
    /\ wlast' = Frame(c, "Ping", <<>>, "Replied")
    /\ UNCHANGED <<conns, inbox, now>>
    /\ UNCHANGED coordVars

\* Frame::Pong(_) => { *state.hb.lock().await = Instant::now(); None }
OnPong(c) ==
    /\ Open(c)
    /\ conns' = [conns EXCEPT ![c].hb = now]
    /\ wlast' = Frame(c, "Pong", <<>>, "Seen")
    /\ UNCHANGED <<inbox, wire, now>>
    /\ UNCHANGED coordVars

\* Frame::Text(text): a payload without a command is answered with nothing;
\* a command is sent on the channel made at `let (tx, _) = unbounded()`, whose
\* receiver is dropped there, so unbounded_send returns Err and unwrap()
\* panics: the connection's task unwinds and nothing reaches the Coordinator.
OnText(c, pl) ==
    /\ Open(c)
    /\ IF Decode(pl) = None
       THEN /\ wlast' = Frame(c, "Text", pl, "Dropped")
            /\ UNCHANGED conns
       ELSE /\ wlast' = Frame(c, "Text", pl, "Panic")
            /\ conns' = [conns EXCEPT ![c].status = "crashed"]
    /\ UNCHANGED <<inbox, wire, now>>
    /\ UNCHANGED coordVars

\* Frame::Close(reason) => Some(Message::Close(reason)); the peer sends no
\* frame after it.
OnClose(c) ==
    /\ Open(c)
    /\ wire' = [wire EXCEPT ![c] = Append(@, "Close")]
    /\ conns' = [conns EXCEPT ![c].status = "closing"]
    /\ wlast' = Frame(c, "Close", <<>>, "Replied")
    /\ UNCHANGED <<inbox, now>>
    /\ UNCHANGED coordVars

\* _ => None (binary and continuation frames)
OnOther(c) ==
    /\ Open(c)
    /\ wlast' = Frame(c, "Other", <<>>, "Dropped")
    /\ UNCHANGED <<conns, inbox, wire, now>>
    /\ UNCHANGED coordVars

\* The connection ends (close handshake, stream closure, transport failure)
\* and on_shutdown runs: tx.send(()) on the oneshot made at
\* `let (tx, _) = oneshot::channel()`, whose receiver is dropped there. No
\* task waits for it and nothing is sent to the Coordinator.
Shutdown(c) ==
    /\ c \in DOMAIN conns
    /\ conns[c].status \in {"open", "closing"}
    /\ conns' = [conns EXCEPT ![c].status = "closed"]
    /\ wlast' = Frame(c, "Shutdown", <<>>, "Closed")
    /\ UNCHANGED <<inbox, wire, now>>
    /\ UNCHANGED coordVars

\* Time passes.
Tick ==
    /\ now < MaxTime
    /\ now' = now + 1
    /\ UNCHANGED <<conns, inbox, wire, wlast>>
    /\ UNCHANGED coordVars

\* The gateway and the Coordinator it talks to. The forwarder task of a
\* connection (client_rx -> sink) has no step here: in these behaviours no
\* event is ever put on a client channel.
WsNext ==
    \/ Accept
    \/ Receive
    \/ \E c \in DOMAIN conns : OnPing(c)
    \/ \E c \in DOMAIN conns : OnPong(c)
    \/ \E c \in DOMAIN conns, pl \in Payloads : OnText(c, pl)
    \/ \E c \in DOMAIN conns : OnClose(c)
    \/ \E c \in DOMAIN conns : OnOther(c)
    \/ \E c \in DOMAIN conns : Shutdown(c)
    \/ Tick

WsSpec == Init /\ [][WsNext]_vars

\* ------------------------------------------------------------ vocabulary
\* This step is the Coordinator handling one command.
Handles == handled' = handled + 1

\* This step handles the given JoinGame / MakeMove / Disconnect command.
HandlesJoin(p, g) ==
    Handles /\ last'.op = "JoinGame" /\ last'.player = p /\ last'.game = g

HandlesMove(p, g, pos) ==
    /\ Handles /\ last'.op = "MakeMove"
    /\ last'.player = p /\ last'.game = g /\ last'.position = pos

HandlesDisconnect(p) ==
    Handles /\ last'.op = "Disconnect" /\ last'.player = p

Rejections == {"RoomFull", "NotInGame", "NotYourTurn", "InvalidMove"}

ErrorText(result) ==
    CASE result = "RoomFull" -> "Game is full"
      [] result = "NotInGame" -> "Not in game"
      [] result = "NotYourTurn" -> "Not your turn"
      [] result = "InvalidMove" -> "Invalid move"

\* The one send task that carries an error to player p, if p has a channel.
ErrorTo(p, text) ==
    IF p \in DOMAIN sessions
    THEN SetToBag({[to |-> sessions[p], msg |-> Error(text)]})
    ELSE EmptyBag

\* The accepted moves and joins of room g, in the order they were accepted.
Moves(g) == SelectSeq(log[g], LAMBDA e : e.op = "move")
Joins(g) == SelectSeq(log[g], LAMBDA e : e.op = "join")

EmptyBoard == [r \in Cells |-> [c \in Cells |-> "_"]]

\* The empty board with the moves ms applied in order, one cell per move.
RECURSIVE Replay(_)
Replay(ms) ==
    IF ms = <<>> THEN EmptyBoard
    ELSE LET m == ms[Len(ms)]
         IN  [Replay(SubSeq(ms, 1, Len(ms) - 1))
                 EXCEPT ![m.position[1]][m.position[2]] =
                     IF m.player = "X" THEN "X" ELSE "O"]

\* TRUE negated n times.
RECURSIVE Negated(_)
Negated(n) == IF n = 0 THEN TRUE ELSE ~Negated(n - 1)

\* ------------------------------------------------------------------- C1
MembersAtMostTwo ==
    \A g \in DOMAIN games : Cardinality(games[g].players) <= 2

ThirdJoinRejected ==
    \A g \in DOMAIN games, p \in PlayerIds :
        (/\ HandlesJoin(p, g)
         /\ Cardinality(games[g].players) = 2
         /\ p \notin games[g].players)
        => /\ last'.result = "RoomFull"
           /\ games' = games
           /\ tasks' = tasks (+) ErrorTo(p, "Game is full")

\* C1: no room ever has more than two members, and a JoinGame by a third
\* distinct player on a room with two members takes the RoomFull branch: the
\* room table is unchanged and the only event is the error "Game is full",
\* sent to the requester's channel.
C1_RoomNeverExceedsTwo ==
    [](MembersAtMostTwo) /\ [][ThirdJoinRejected]_vars

\* A registered third player was just refused on a room with two members and
\* its error is on the way.
C1_Witness ==
    /\ last.op = "JoinGame" /\ last.result = "RoomFull"
    /\ last.game \in DOMAIN games
    /\ Cardinality(games[last.game].players) = 2
    /\ last.player \notin games[last.game].players
    /\ last.player \in DOMAIN sessions
    /\ BagIn([to |-> sessions[last.player], msg |-> Error("Game is full")],
             tasks)

\* ------------------------------------------------------------------- C2
CellsKeepTheirMark ==
    \A g \in DOMAIN games, r \in Cells, c \in Cells :
        games[g].board[r][c] # "_"
        => /\ g \in DOMAIN games'
           /\ games'[g].board[r][c] = games[g].board[r][c]

OccupiedTargetRejected ==
    \A g \in DOMAIN games, p \in PlayerIds, r \in Cells, c \in Cells :
        (HandlesMove(p, g, <<r, c>>) /\ games[g].board[r][c] # "_")
        => /\ last'.result \in {"NotInGame", "NotYourTurn", "InvalidMove"}
           /\ games' = games

\* C2: no step changes a cell that holds a mark, and a MakeMove whose target
\* cell is occupied is rejected and leaves every room as it was, whoever the
\* requester is.
C2_CellNeverOverwritten ==
    [][CellsKeepTheirMark /\ OccupiedTargetRejected]_vars

\* The member whose turn it is was just refused on an occupied cell.
C2_Witness ==
    /\ last.op = "MakeMove" /\ last.result = "InvalidMove"
    /\ Len(last.position) = 2
    /\ last.position[1] \in Cells /\ last.position[2] \in Cells
    /\ games[last.game].board[last.position[1]][last.position[2]] # "_"

\* ------------------------------------------------------------------- C3
BoardIsReplayOfMoves ==
    /\ \A g \in DOMAIN games :
          /\ games[g].board = Replay(Moves(g))
          /\ games[g].x_turn = Negated(Len(Moves(g)))
    /\ \A g \in GameIds \ DOMAIN games : log[g] = <<>>

OnlyAcceptedMovesChangeBoard ==
    \A g \in DOMAIN games :
        \/ /\ g \in DOMAIN games'
           /\ games'[g].board = games[g].board
           /\ games'[g].x_turn = games[g].x_turn
           /\ Moves(g)' = Moves(g)
        \/ /\ g \in DOMAIN games'
           /\ last'.op = "MakeMove" /\ last'.result = "Moved" /\ last'.game = g
           /\ Handles
           /\ Moves(g)' = Append(Moves(g), [op |-> "move",
                                            player |-> last'.player,
                                            position |-> last'.position])
           /\ \E r \in Cells, c \in Cells :
                 /\ last'.position = <<r, c>>
                 /\ games[g].board[r][c] = "_"
                 /\ games'[g].board =
                      [games[g].board EXCEPT ![r][c] =
                          IF last'.player = "X" THEN "X" ELSE "O"]
           /\ games'[g].x_turn = ~games[g].x_turn

\* C3: in every room the board is the empty board with the accepted moves
\* applied in the order they were accepted, the turn flag is TRUE negated once
\* per accepted move, and only an accepted MakeMove changes a board or a turn
\* flag: it changes exactly one cell, to the acting player's mark.
C3_BoardReflectsAcceptedMoves ==
    [](BoardIsReplayOfMoves) /\ [][OnlyAcceptedMovesChangeBoard]_vars

\* A room in which two moves were accepted.
C3_Witness ==
    \E g \in DOMAIN games :
        /\ Len(Moves(g)) >= 2
        /\ Moves(g)[1].position # Moves(g)[2].position

\* ------------------------------------------------------------------- C4
OffTurnMoveRejected ==
    \A g \in DOMAIN games, p \in PlayerIds, pos \in Positions :
        (/\ HandlesMove(p, g, pos)
         /\ p \in games[g].players
         /\ games[g].x_turn # (p = "X"))
        => /\ last'.result = "NotYourTurn"
           /\ games' = games
           /\ tasks' = tasks (+) ErrorTo(p, "Not your turn")

NoTwoMovesInARow ==
    \A g \in GameIds : \A i \in 1 .. (Len(Moves(g)) - 1) :
        Moves(g)[i].player # Moves(g)[i + 1].player

\* C4: a MakeMove by a member whose role does not match the turn flag takes
\* the NotYourTurn branch and leaves every room unchanged, and in no room are
\* two consecutive accepted moves made by the same player.
C4_TurnsAlternate ==
    [][OffTurnMoveRejected]_vars /\ [](NoTwoMovesInARow)

\* The player who made the last accepted move of a room tried to move again
\* and was refused.
C4_Witness ==
    /\ last.op = "MakeMove" /\ last.result = "NotYourTurn"
    /\ Len(Moves(last.game)) >= 1
    /\ Moves(last.game)[Len(Moves(last.game))].player = last.player

\* ------------------------------------------------------------------- C5
FirstJoinerOpens ==
    \A g \in DOMAIN games, p \in PlayerIds, q \in PlayerIds :
        (/\ p # q
         /\ log[g] = <<[op |-> "join", player |-> p, position |-> <<>>],
                       [op |-> "join", player |-> q, position |-> <<>>]>>
         /\ games[g].players = {p, q}
         /\ HandlesMove(p, g, <<0, 0>>))
        => /\ last'.result = "Moved"
           /\ games'[g].board[0][0] = "X"
           /\ games'[g].x_turn = ~games[g].x_turn
           /\ \A m \in {p, q} \cap DOMAIN sessions :
                 BagIn([to |-> sessions[m], msg |-> GameState(games'[g])],
                       tasks')

SecondJoinerRefused ==
    \A g \in DOMAIN games, p \in PlayerIds, q \in PlayerIds :
        (/\ p # q
         /\ log[g] = <<[op |-> "join", player |-> p, position |-> <<>>],
                       [op |-> "join", player |-> q, position |-> <<>>],
                       [op |-> "move", player |-> p, position |-> <<0, 0>>]>>
         /\ games[g].players = {p, q}
         /\ HandlesMove(q, g, <<0, 0>>))
        => /\ last'.result = "InvalidMove"
           /\ games' = games

\* C5: when two distinct players, whatever their identifiers, have joined a
\* fresh room, the first joiner's MakeMove to [0,0] is accepted (the cell
\* takes the first mark, the turn flag flips, the members are sent the new
\* state), and the second joiner's following MakeMove to [0,0] is rejected
\* with InvalidMove and changes nothing.
C5_ScenarioAnyIdentifiers ==
    [][FirstJoinerOpens /\ SecondJoinerRefused]_vars

\* ------------------------------------------------------------------- C6
DisconnectEffect ==
    \A p \in PlayerIds :
        HandlesDisconnect(p)
        => /\ p \notin DOMAIN sessions'
           /\ DOMAIN sessions' = DOMAIN sessions \ {p}
           /\ \A q \in DOMAIN sessions' : sessions'[q] = sessions[q]
           /\ DOMAIN games' = DOMAIN games
           /\ \A g \in DOMAIN games :
                 /\ games'[g].players = games[g].players \ {p}
                 /\ games'[g].board = games[g].board
                 /\ games'[g].x_turn = games[g].x_turn
                 /\ games'[g].game_id = games[g].game_id
           /\ tasks' = tasks
           /\ queues' = queues

\* C6: handling Disconnect(p) removes p from the registry and from every
\* room's member set, leaves every other registry entry, every other member,
\* every board and every turn flag as they were, and sends no event.
C6_DisconnectFrame ==
    [][DisconnectEffect]_vars

\* The only registered player, member of a room with somebody else, was just
\* disconnected: the registry is empty and the other member is still there.
C6_Witness ==
    /\ last.op = "Disconnect"
    /\ Len(queues) > 0 /\ DOMAIN sessions = {}
    /\ \E g \in DOMAIN games :
          /\ games[g].players # {}
          /\ \E i \in 1 .. Len(Joins(g)) : Joins(g)[i].player = last.player

\* ------------------------------------------------------------------- C7
GoneIsNotInGame ==
    \A p \in gone, g \in GameIds :
        (Handles /\ last'.op \in {"JoinGame", "MakeMove"}
                 /\ last'.player = p /\ last'.game = g)
        => /\ last'.result = "NotInGame"
           /\ games' = games

\* C7: once Disconnect(p) was handled and until p connects again, every
\* JoinGame and MakeMove carrying p, on a known or an unknown room, is
\* rejected as NotInGame and changes no room.
C7_DisconnectedIsRejected ==
    [][GoneIsNotInGame]_vars

\* ------------------------------------------------------------------- C8
RejectionFrame ==
    (Handles /\ last'.result \in Rejections)
    => /\ games' = games
       /\ sessions' = sessions
       /\ queues' = queues
       /\ tasks' = tasks (+) ErrorTo(last'.player, ErrorText(last'.result))

\* A send task puts its event on the channel it was spawned for, nowhere else.
DeliveryFrame ==
    queues' # queues
    => \/ /\ Handles /\ last'.op = "Connect"
          /\ queues' = Append(queues, <<>>)
       \/ \E t \in BagToSet(tasks) :
             /\ tasks' = tasks (-) SetToBag({t})
             /\ queues' = [queues EXCEPT ![t.to] = Append(@, t.msg)]

\* C8: a command rejected with RoomFull, NotInGame, NotYourTurn or
\* InvalidMove leaves the room table and the registry as they were, and its
\* only event is the error, addressed to the requester's channel; a send task
\* puts its event on the channel it was addressed to and on no other.
C8_RejectionIsLocal ==
    [][RejectionFrame /\ DeliveryFrame]_vars

\* Two players are registered, one was just refused, its error arrived on its
\* own channel and the other channel holds no error.
C8_Witness ==
    \E p \in DOMAIN sessions, q \in DOMAIN sessions :
        /\ p # q
        /\ last.player = p /\ last.result \in Rejections
        /\ \E i \in 1 .. Len(queues[sessions[p]]) :
              queues[sessions[p]][i] = Error(ErrorText(last.result))
        /\ \A i \in 1 .. Len(queues[sessions[q]]) :
              queues[sessions[q]][i].kind # "Error"
        /\ tasks = EmptyBag

\* ------------------------------------------------------------------- C9
BadPosition(pos) ==
    \/ Len(pos) # 2
    \/ \E i \in 1 .. Len(pos) : pos[i] >= BoardSize

OutOfRangeIsInvalidMove ==
    \A g \in DOMAIN games, p \in PlayerIds, pos \in Positions :
        (/\ HandlesMove(p, g, pos)
         /\ p \in games[g].players
         /\ games[g].x_turn = (p = "X")
         /\ BadPosition(pos))
        => /\ last'.result = "InvalidMove"
           /\ tasks' = tasks (+) ErrorTo(p, "Invalid move")
           /\ games' = games

\* C9: a MakeMove by the member whose turn it is, with a position that is not
\* two coordinates or has a coordinate of 3 or more, fails with InvalidMove
\* sent to the requester and leaves the board and the turn flag unchanged.
C9_OutOfRangeIsInvalidMove ==
    [][OutOfRangeIsInvalidMove]_vars

\* ------------------------------------------------------------------ C10
\* C10: the Coordinator never stops: after handling any command, whatever
\* its arguments, the Coordinator loop is still running.
C10_CoordinatorNeverStops ==
    alive

\* ------------------------------------------------------------------ C11
StrangerGetsNotInGame ==
    \A g \in GameIds, p \in PlayerIds, pos \in Positions :
        (/\ HandlesMove(p, g, pos)
         /\ \/ g \notin DOMAIN games
            \/ p \notin games[g].players)
        => /\ last'.result = "NotInGame"
           /\ tasks' = tasks (+) ErrorTo(p, "Not in game")
           /\ games' = games

\* C11: a MakeMove whose room is unknown, or whose player is not a member of
\* the room, fails with NotInGame: the error "Not in game" is sent to the
\* requester and no room changes.
C11_StrangerIsNotInGame ==
    [][StrangerGetsNotInGame]_vars

\* ------------------------------------------------------------------ C14
ConnectRegistersAndConfirms ==
    \A p \in PlayerIds :
        (Handles /\ last'.op = "Connect" /\ last'.player = p)
        => /\ p \in DOMAIN sessions'
           /\ sessions'[p] = Len(queues) + 1
           /\ \A q \in DOMAIN sessions' \ {p} : sessions'[q] # sessions'[p]
           /\ \/ BagIn([to |-> sessions'[p], msg |-> Id(p)], tasks')
              \/ \E i \in 1 .. Len(queues'[sessions'[p]]) :
                    queues'[sessions'[p]][i] = Id(p)

\* C14: handling Connect(p, channel) registers p with that channel, one entry
\* per player, and puts the Id confirmation carrying p on the way to p's
\* channel (as a send task or already on the queue).
C14_ConnectConfirmsId ==
    [][ConnectRegistersAndConfirms]_vars

\* ------------------------------------------------------------------ C15
MembersAreNotified ==
    \A g \in GameIds :
        (/\ Handles /\ last'.game = g
         /\ \/ last'.op = "JoinGame" /\ last'.result = "Joined"
            \/ last'.op = "MakeMove" /\ last'.result = "Moved")
        => \A m \in games'[g].players :
              /\ m \in DOMAIN sessions
              /\ CopiesIn([to |-> sessions[m], msg |-> GameState(games'[g])],
                          tasks')
                   > CopiesIn([to |-> sessions[m],
                               msg |-> GameState(games'[g])], tasks)
              /\ CopiesIn([to |-> sessions[m],
                           msg |-> YourTurn(games'[g].x_turn = (m = "X"))],
                          tasks')
                   > CopiesIn([to |-> sessions[m],
                               msg |-> YourTurn(games'[g].x_turn = (m = "X"))],
                              tasks)

\* C15: on every accepted JoinGame and every accepted MakeMove each member of
\* the room is sent the room state just committed and a turn notice that is
\* true exactly when the member's role matches the committed turn flag.
C15_MembersAreNotified ==
    [][MembersAreNotified]_vars

\* ------------------------------------------------------------------ C19
CountOf(board, mark) ==
    Cardinality({rc \in Cells \X Cells : board[rc[1]][rc[2]] = mark})

MarksAlternate ==
    \A g \in DOMAIN games :
        LET b == games[g].board
        IN  /\ \A r \in Cells, c \in Cells : b[r][c] \in {"_", "X", "O"}
            /\ CountOf(b, "X") - CountOf(b, "O") \in {0, 1}
            /\ games[g].x_turn = (CountOf(b, "X") = CountOf(b, "O"))
            /\ \A i \in 1 .. Len(Moves(g)) :
                  b[Moves(g)[i].position[1]][Moves(g)[i].position[2]]
                      = IF i % 2 = 1 THEN "X" ELSE "O"

\* C19: in every room each cell is "_", "X" or "O", the accepted moves place
\* X and O alternately starting with X, the number of X cells minus the
\* number of O cells is 0 or 1, and x_turn is true exactly when they are equal.
C19_MarksAlternate ==
    MarksAlternate

\* A room holding one X and one O.
C19_Witness ==
    \E g \in DOMAIN games :
        /\ CountOf(games[g].board, "X") = 1
        /\ CountOf(games[g].board, "O") = 1
        /\ games[g].x_turn

\* ------------------------------------------------------------------ C20
\* C20: every member of every room has an entry in the session registry.
C20_MembersAreRegistered ==
    \A g \in DOMAIN games : games[g].players \subseteq DOMAIN sessions

\* ------------------------------------------------------------------ C18
RECURSIVE IsPrefix(_, _)
IsPrefix(a, b) ==
    IF a = <<>> THEN TRUE
    ELSE /\ b # <<>>
         /\ Head(a) = Head(b)
         /\ IsPrefix(Tail(a), Tail(b))

\* C18: on every outbound channel the events arrive in the order in which the
\* Coordinator committed them: what has arrived is an initial part of what
\* the Coordinator sent to that channel, whatever order the send tasks run in.
C18_ArrivalInCommitOrder ==
    \A ch \in DOMAIN queues : IsPrefix(queues[ch], sent[ch])

\* ------------------------------------------------------- gateway vocabulary
\* This step is connection c handling a text frame with payload pl.
TextStep(c, pl) ==
    /\ wlast' # wlast
    /\ wlast'.frame = "Text"
    /\ wlast'.conn = c
    /\ wlast'.payload = pl

\* The payload is a join or a move with every field its type requires.
WellFormed(pl) ==
    /\ pl.parses
    /\ \/ pl.message_type = Some("join") /\ pl.player # None
          /\ pl.game_id # None
       \/ pl.message_type = Some("move") /\ pl.player # None
          /\ pl.game_id # None /\ pl.move # None

\* The command a well-formed payload stands for.
CommandOf(pl) ==
    IF pl.message_type = Some("join")
    THEN JoinGameMsg(pl.player[1], pl.game_id[1])
    ELSE MakeMoveMsg(pl.player[1], pl.game_id[1], pl.move[1])

\* A Disconnect for connection c is on the Coordinator's inbound channel or
\* has been handled.
DisconnectIssued(c) ==
    \/ \E i \in 1 .. Len(inbox) : inbox[i] = DisconnectMsg(conns[c].id)
    \/ conns[c].id \in gone

DisconnectsPending(c) ==
    Cardinality({i \in 1 .. Len(inbox) : inbox[i] = DisconnectMsg(conns[c].id)})

\* ------------------------------------------------------------------ C12
\* C12: a connection whose peer has been silent for longer than the timeout
\* (and one check interval) is no longer open, a Disconnect for it has been
\* issued to the Coordinator, and it was issued once.
C12_SilentPeerIsDisconnected ==
    \A c \in DOMAIN conns :
        /\ now - conns[c].hb > SilenceLimit
              => conns[c].status # "open" /\ DisconnectIssued(c)
        /\ DisconnectsPending(c) <= 1

\* ------------------------------------------------------------------ C13
\* C13: once a connection has terminated and its shutdown handler has run, a
\* Disconnect for its player has been issued to the Coordinator, exactly one.
C13_TerminationDisconnects ==
    \A c \in DOMAIN conns :
        conns[c].status = "closed"
            => DisconnectIssued(c) /\ DisconnectsPending(c) <= 1

\* ------------------------------------------------------------------ C16
MalformedIsDropped ==
    \A c \in DOMAIN conns, pl \in Payloads :
        (TextStep(c, pl) /\ ~WellFormed(pl))
        => /\ inbox' = inbox
           /\ wire' = wire
           /\ conns' = conns
           /\ conns'[c].status = "open"
           /\ wlast'.outcome = "Dropped"
           /\ UNCHANGED coordVars

WellFormedIsForwarded ==
    \A c \in DOMAIN conns, pl \in Payloads :
        (TextStep(c, pl) /\ WellFormed(pl))
        => inbox' = Append(inbox, CommandOf(pl))

\* C17: every well-formed join or move frame puts the corresponding command
\* at the end of the Coordinator's inbound queue, so commands are queued in
\* the order of the connection's frames.
C17_WellFormedIsForwarded ==
    [][WellFormedIsForwarded]_vars
====
